---- MODULE Spec2Model ----
(***************************************************************************)
(* State-machine model of the StoreHub back-office MCP server              *)
(* (src/storehub-mcp-server/main.py): the rate limiter, the API gateway    *)
(* make_api_request with its 409 retry, the store resolver and the tool    *)
(* handlers that reach the remote service through the gateway.             *)
(*                                                                         *)
(* Time is in milliseconds.  Every coroutine of the asyncio event loop is  *)
(* a caller p \in Procs; a step of the model is the code a coroutine runs  *)
(* between two suspension points (await of a sleep or of an HTTP           *)
(* response).                                                              *)
(***************************************************************************)
EXTENDS Integers, Sequences, FiniteSets, TLC

VARIABLES
    STOREHUB_API_KEY,        \* main.py:42  environment value
    STOREHUB_ACCOUNT_ID,     \* main.py:43  environment value
    api_configured,          \* main.py:60
    now,                     \* the wall clock, time.time(), in ms
    last_api_call_time,      \* main.py:47
    actual_store_id_cache,   \* main.py:54
    call,                    \* per caller: the tool invocation in progress
    gw,                      \* per caller: the make_api_request call in progress
    http_log,                \* per caller: HTTP requests sent by the invocation
    stamped,                 \* history: an acquisition has completed
    stamp_toggle,            \* history: flips at every acquisition
    invocations,             \* number of tool invocations started
    product_cache,           \* main.py:50
    name_call,               \* per caller: the get_product_name_cached call in progress
    store_call,              \* per caller: the get_actual_store_id call in progress
    last_lookup,             \* history, per product id: the last call completed
    last_resolve,            \* history: the last get_actual_store_id call completed
    last_http_at             \* history: when the last HTTP request was sent

vars == <<STOREHUB_API_KEY, STOREHUB_ACCOUNT_ID, api_configured, now,
          last_api_call_time, actual_store_id_cache, call, gw, http_log,
          stamped, stamp_toggle, invocations,
          product_cache, name_call, store_call, last_lookup, last_resolve,
          last_http_at>>

\* the state of the product-name cache and of the calls made on the two
\* caches outside a tool invocation
cache_vars == <<product_cache, name_call, store_call, last_lookup, last_resolve>>

-----------------------------------------------------------------------------
(* Bounds of the model *)

MaxInvocations == 2
MaxConcurrentInvocations == 3
StartTime == 1000
MaxTime == 3625

\* the coroutines that may run tool invocations; one only when the host
\* serializes the invocations
Procs == {1, 2}
SerialProcs == {1}

\* the clock's resolution, and the amounts by which it is seen to advance
Resolution == 175
TickSteps == {Resolution, 12 * Resolution}

-----------------------------------------------------------------------------
(* Program constants *)

RATE_LIMIT_DELAY == 350
RETRY_WAIT == 2000

-----------------------------------------------------------------------------
(* Environment values and Python truthiness *)

Unset == [set |-> FALSE, val |-> <<>>]
EnvStr(s) == [set |-> TRUE, val |-> s]

\* bool(x) of an os.getenv result: None and "" are falsy
EnvTruthy(e) == e.set /\ e.val # <<>>

AccountIdValues == {Unset, EnvStr(<<"A", "b">>)}
ApiKeyValues == {Unset, EnvStr(<<>>), EnvStr(<<"k">>)}

\* api_configured = all([STOREHUB_API_KEY, STOREHUB_ACCOUNT_ID])
ApiConfigured(key, account) == EnvTruthy(key) /\ EnvTruthy(account)

-----------------------------------------------------------------------------
(* JSON values returned by the remote service *)

JNull == [type |-> "null", items |-> <<>>]
JList(s) == [type |-> "list", items |-> s]
JObject(s) == [type |-> "object", items |-> s]

\* bool(x) of a parsed JSON value: None, [] and {} are falsy
Truthy(j) == j.type # "null" /\ j.items # <<>>

-----------------------------------------------------------------------------
(* Strings are sequences of characters; str.lower() and the "in" operator *)

LowerChar(c) == CASE c = "A" -> "a" [] c = "B" -> "b" [] OTHER -> c
Lower(s) == [i \in 1..Len(s) |-> LowerChar(s[i])]

\* sub in s
Contains(sub, s) ==
    \E i \in 0..(Len(s) - Len(sub)) : SubSeq(s, i + 1, i + Len(sub)) = sub

-----------------------------------------------------------------------------
(* The remote service: endpoints and the responses it can give *)

NoDay == 0 - 1
Ep(path, id) == [path |-> path, id |-> id, from |-> NoDay, to |-> NoDay, store |-> <<>>]
\* a query with the parameters from, to and storeId
EpRange(path, from, to, store) ==
    [path |-> path, id |-> "", from |-> from, to |-> to, store |-> store]
NoEndpoint == Ep("", "")

RefIds == {"r1", "r2"}

Store(id, name) == [id |-> id, name |-> name]
StoreSet == { Store(<<"s", "1">>, <<"a", "B">>),
              Store(<<"s", "2">>, <<"x", "a", "b">>),
              Store(<<"s", "3">>, <<"x">>),
              Store(<<"A", "b">>, <<"y">>),
              Store(<<>>, <<"x">>) }
MaxStores == 2
\* the lists of at most MaxStores stores, each store listed once
Distinct(l) == \A i, j \in 1..Len(l) : l[i] = l[j] => i = j
StoreLists ==
    UNION { {l \in [1..n -> StoreSet] : Distinct(l)} : n \in 0..MaxStores }

Item == Store(<<"i", "1">>, <<"n">>)
ProductIds == {"p1", "p2"}
\* the product details of id, with their "name" field
Product(id) == Store(<<id>>, <<"N", id>>)
\* a transaction record of the range [from, to]
Tx(from, to) == [id |-> <<from, to>>, name |-> <<"t", "x">>]
ErrorBody == JObject(<<Store(<<"e">>, <<"e", "r", "r">>)>>)

\* the JSON bodies a 2xx response of an endpoint may carry
Bodies(ep) ==
    IF ep.path = "/stores"
    THEN {JNull} \cup {JList(l) : l \in StoreLists}
    ELSE IF ep.path = "/transactions" /\ ep.from # NoDay
    THEN {JNull, JList(<<>>), JList(<<Tx(ep.from, ep.to)>>)}
    ELSE IF ep.path = "/products/{id}" /\ ep.id # ""
    THEN {JNull, JObject(<<>>), JObject(<<Product(ep.id)>>)}
    ELSE IF ep.id # ""
    THEN {JNull, JObject(<<Item>>)}
    ELSE {JNull, JList(<<>>), JList(<<Item>>)}

HttpStatus(status, body) == [kind |-> "status", status |-> status, body |-> body]
NoResponse == [kind |-> "none", status |-> 0, body |-> JNull]

\* what one HTTP attempt can end with: a status and body, a body that is
\* not JSON, a timeout (30 s, httpx.TimeoutException) or a network error
Responses(ep) ==
    {HttpStatus(200, b) : b \in Bodies(ep)}
    \cup {HttpStatus(s, ErrorBody) : s \in {404, 409, 500}}
    \cup {[kind |-> k, status |-> 0, body |-> JNull] : k \in {"timeout", "neterr"}}
    \cup {[kind |-> "badjson", status |-> 200, body |-> JNull]}

\* response.raise_for_status() passes
IsSuccess(r) == r.kind \in {"status", "badjson"} /\ r.status \in 200..299

-----------------------------------------------------------------------------
(* Outcome of a gateway call: the parsed JSON, or the exception raised *)

Ok(body) == [kind |-> "ok", status |-> 200, body |-> body]
Raise(kind, status) == [kind |-> kind, status |-> status, body |-> JNull]
NoOutcome == Raise("none", 0)

NewCall(ep, m) ==
    [pc |-> "none", endpoint |-> ep, method |-> m, attempts |-> 0,
     wake |-> 0, slept |-> FALSE, cooldowns |-> 0, first_at |-> 0, waited |-> 0,
     first |-> NoResponse, retry |-> NoResponse, outcome |-> NoOutcome]
NoCall == NewCall(NoEndpoint, "GET")

\* the call is over; wake and slept describe a call in progress only
Returned(g, outcome) ==
    [g EXCEPT !.pc = "ret", !.outcome = outcome, !.wake = 0, !.slept = FALSE]

-----------------------------------------------------------------------------
(* Rate limiter: rate_limited_delay, main.py:78-89 *)

\* time_since_last_call < RATE_LIMIT_DELAY, evaluated at time t
MustWait(t) == t - last_api_call_time < RATE_LIMIT_DELAY

\* a limiter that sleeps for the time already elapsed
Delay_elapsed(t) == t - last_api_call_time

\* delay = RATE_LIMIT_DELAY - time_since_last_call
Delay(t) == RATE_LIMIT_DELAY - (t - last_api_call_time)

\* last_api_call_time = time.time()
Stamp ==
    /\ last_api_call_time' = now
    /\ stamped' = TRUE
    /\ stamp_toggle' = ~stamp_toggle

\* no acquisition in this step, and so no HTTP request either
NoStamp == UNCHANGED <<last_api_call_time, stamped, stamp_toggle, last_http_at>>

-----------------------------------------------------------------------------
(* API gateway: make_api_request, main.py:137-188 *)

\* a gateway that also sends PUT
Supported_with_put(m) == m \in {"GET", "POST", "PUT"}

\* lines 150-153: the methods the gateway sends
Supported(m) == m = "GET" \/ m = "POST"

\* lines 145-155: after the acquisition, the first HTTP attempt is sent,
\* or the method is refused inside the try block (line 155, re-raised by
\* the handler of lines 186-188)
SendFirst(p, g, log) ==
    IF Supported(g.method)
    THEN /\ gw' = [gw EXCEPT ![p] =
                     [g EXCEPT !.pc = "http1", !.attempts = 1, !.wake = 0]]
         /\ http_log' = [http_log EXCEPT ![p] =
                     log \cup {[method |-> g.method, endpoint |-> g.endpoint]}]
         /\ last_http_at' = now
    ELSE /\ gw' = [gw EXCEPT ![p] = Returned(g, Raise("UnsupportedMethod", 0))]
         /\ http_log' = [http_log EXCEPT ![p] = log]
         /\ UNCHANGED last_http_at

\* a gateway that does not look at the credentials
CredentialsMissing_unchecked == FALSE

\* line 139: if not api_configured
CredentialsMissing == ~api_configured

\* lines 139-155, up to the first suspension: the credentials check, the
\* rate limiter (which suspends when the last call is too recent) and the
\* first HTTP attempt
make_api_request(p, ep, m, log) ==
    IF CredentialsMissing
    THEN /\ gw' = [gw EXCEPT ![p] = Returned(NewCall(ep, m), Raise("NotConfigured", 0))]
         /\ http_log' = [http_log EXCEPT ![p] = log]
         /\ NoStamp
    ELSE IF MustWait(now)
    THEN /\ gw' = [gw EXCEPT ![p] =
                     [NewCall(ep, m) EXCEPT !.pc = "rl_sleep", !.slept = TRUE,
                                            !.wake = now + Delay(now)]]
         /\ http_log' = [http_log EXCEPT ![p] = log]
         /\ NoStamp
    ELSE /\ Stamp
         /\ SendFirst(p, NewCall(ep, m), log)

\* lines 87-89: asyncio.sleep(delay) is over, the time is stamped and the
\* call goes on to its first HTTP attempt
rate_limited_delay_resume(p) ==
    /\ gw[p].pc = "rl_sleep"
    /\ now >= gw[p].wake
    /\ Stamp
    /\ SendFirst(p, gw[p], http_log[p])
    /\ UNCHANGED <<cache_vars, STOREHUB_API_KEY, STOREHUB_ACCOUNT_ID, api_configured, now,
                   actual_store_id_cache, call, invocations>>

\* the exception a failed first attempt raises (lines 157-158, 183-188)
FirstFailure(r) ==
    CASE r.kind = "timeout" -> Raise("Timeout", 0)
      [] r.kind = "neterr" -> Raise("NetworkError", 0)
      [] r.kind = "badjson" -> Raise("JSONDecodeError", 0)
      [] OTHER -> Raise("ApiError", r.status)

\* a gateway that retries on every error status
IsConflict_any_status(r) == r.kind = "status" /\ r.status >= 400

\* line 161: e.response.status_code == 409
IsConflict(r) == r.kind = "status" /\ r.status = 409

\* lines 151-172, 183-188: the first HTTP attempt ends
first_response(p, r) ==
    /\ gw[p].pc = "http1"
    /\ r \in Responses(gw[p].endpoint)
    /\ gw' = [gw EXCEPT ![p] =
         IF r.kind = "status" /\ IsSuccess(r)
         THEN Returned([gw[p] EXCEPT !.first = r], Ok(r.body))
         ELSE IF IsConflict(r)
         THEN [gw[p] EXCEPT !.first = r, !.pc = "cooldown",
                            !.wake = now + RETRY_WAIT, !.first_at = now,
                            !.cooldowns = gw[p].cooldowns + 1]
         ELSE Returned([gw[p] EXCEPT !.first = r], FirstFailure(r))]
    /\ UNCHANGED <<cache_vars, STOREHUB_API_KEY, STOREHUB_ACCOUNT_ID, api_configured, now,
                   last_api_call_time, last_http_at, actual_store_id_cache, call, http_log,
                   stamped, stamp_toggle, invocations>>

\* a retry that does not wait for the cooldown
retry_send_at_once(p) ==
    /\ gw[p].pc = "cooldown"
    /\ gw' = [gw EXCEPT ![p] =
         [gw[p] EXCEPT !.pc = "http2", !.attempts = gw[p].attempts + 1,
                       !.wake = 0, !.first_at = 0,
                       !.waited = now - gw[p].first_at]]
    /\ http_log' = [http_log EXCEPT ![p] =
         http_log[p] \cup {[method |-> gw[p].method, endpoint |-> gw[p].endpoint]}]
    /\ last_http_at' = now
    /\ UNCHANGED <<cache_vars, STOREHUB_API_KEY, STOREHUB_ACCOUNT_ID, api_configured, now,
                   last_api_call_time, actual_store_id_cache, call,
                   stamped, stamp_toggle, invocations>>

\* a retry that acquires the rate limiter's timestamp as a first attempt does
retry_send_stamped(p) ==
    /\ gw[p].pc = "cooldown"
    /\ now >= gw[p].wake
    /\ gw' = [gw EXCEPT ![p] =
         [gw[p] EXCEPT !.pc = "http2", !.attempts = gw[p].attempts + 1,
                       !.wake = 0, !.first_at = 0,
                       !.waited = now - gw[p].first_at]]
    /\ http_log' = [http_log EXCEPT ![p] =
         http_log[p] \cup {[method |-> gw[p].method, endpoint |-> gw[p].endpoint]}]
    /\ last_http_at' = now
    /\ Stamp
    /\ UNCHANGED <<cache_vars, STOREHUB_API_KEY, STOREHUB_ACCOUNT_ID, api_configured, now,
                   actual_store_id_cache, call, invocations>>

\* lines 172-177: asyncio.sleep(2.0) is over, the request is sent again
retry_send(p) ==
    /\ gw[p].pc = "cooldown"
    /\ now >= gw[p].wake
    /\ gw' = [gw EXCEPT ![p] =
         [gw[p] EXCEPT !.pc = "http2", !.attempts = gw[p].attempts + 1,
                       !.wake = 0, !.first_at = 0,
                       !.waited = now - gw[p].first_at]]
    /\ http_log' = [http_log EXCEPT ![p] =
         http_log[p] \cup {[method |-> gw[p].method, endpoint |-> gw[p].endpoint]}]
    /\ last_http_at' = now
    /\ UNCHANGED <<cache_vars, STOREHUB_API_KEY, STOREHUB_ACCOUNT_ID, api_configured, now,
                   last_api_call_time, actual_store_id_cache, call,
                   stamped, stamp_toggle, invocations>>

\* a retry that, on another 409, cools down and tries again
retry_response_again(p, r) ==
    /\ gw[p].pc = "http2"
    /\ r \in Responses(gw[p].endpoint)
    /\ gw' = [gw EXCEPT ![p] =
         IF r.kind = "status" /\ IsSuccess(r)
         THEN Returned([gw[p] EXCEPT !.retry = r], Ok(r.body))
         ELSE IF r.kind = "status" /\ r.status = 409
         THEN [gw[p] EXCEPT !.retry = r, !.pc = "cooldown",
                            !.wake = now + RETRY_WAIT, !.first_at = now,
                            !.cooldowns = gw[p].cooldowns + 1]
         ELSE Returned([gw[p] EXCEPT !.retry = r], Raise("RateLimitExceeded", 0))]
    /\ UNCHANGED <<cache_vars, STOREHUB_API_KEY, STOREHUB_ACCOUNT_ID, api_configured, now,
                   last_api_call_time, last_http_at, actual_store_id_cache, call, http_log,
                   stamped, stamp_toggle, invocations>>

\* lines 178-182: the retry ends
retry_response(p, r) ==
    /\ gw[p].pc = "http2"
    /\ r \in Responses(gw[p].endpoint)
    /\ gw' = [gw EXCEPT ![p] =
         IF r.kind = "status" /\ IsSuccess(r)
         THEN Returned([gw[p] EXCEPT !.retry = r], Ok(r.body))
         ELSE Returned([gw[p] EXCEPT !.retry = r], Raise("RateLimitExceeded", 0))]
    /\ UNCHANGED <<cache_vars, STOREHUB_API_KEY, STOREHUB_ACCOUNT_ID, api_configured, now,
                   last_api_call_time, last_http_at, actual_store_id_cache, call, http_log,
                   stamped, stamp_toggle, invocations>>

\* the wall clock advances
Tick(d) ==
    /\ now + d <= MaxTime
    /\ now' = now + d
    /\ UNCHANGED <<cache_vars, STOREHUB_API_KEY, STOREHUB_ACCOUNT_ID, api_configured,
                   last_api_call_time, last_http_at, actual_store_id_cache, call, gw, http_log,
                   stamped, stamp_toggle, invocations>>

-----------------------------------------------------------------------------
(* Tool handlers that make one gateway call *)

ToolDef(name, path, method, validates, byId, shape) ==
    [name |-> name, path |-> path, method |-> method,
     validates |-> validates, byId |-> byId, shape |-> shape]

get_products == ToolDef("get_products", "/products", "GET", FALSE, FALSE, "list")
create_customer == ToolDef("create_customer", "/customers", "POST", TRUE, FALSE, "write")
update_customer == ToolDef("update_customer", "/customers/{id}", "PUT", TRUE, TRUE, "write")
get_customer_by_id == ToolDef("get_customer_by_id", "/customers/{id}", "GET", TRUE, TRUE, "object")

\* the other single-call handlers of main.py have one of these four shapes
SingleCallTools == {get_products, create_customer, update_customer, get_customer_by_id}

ToolNamed(n) == CHOOSE t \in SingleCallTools : t.name = n

\* arguments of an invocation: ok = the required fields are all present,
\* id = refId / productId, from and to = the date range in days
Args(ok, id, from, to) == [ok |-> ok, id |-> id, from |-> from, to |-> to]
NoArgs == Args(TRUE, "", NoDay, NoDay)

\* the text a handler returns, by its kind
Out(kind, msg, status) == [kind |-> kind, msg |-> msg, status |-> status]
NoOut == Out("none", "", 0)

\* the "except Exception as e" of a handler: the text carries str(e)
ErrorOut(o) == Out("error", o.kind, o.status)

NewInvocation(tool, tpc, args) ==
    [tool |-> tool, tpc |-> tpc, args |-> args, out |-> NoOut,
     date |-> NoDay, txs |-> <<>>, tx_calls |-> 0, skipped |-> 0]
Idle == NewInvocation("none", "idle", NoArgs)
Done(c, out) == [c EXCEPT !.tpc = "done", !.out = out]

\* a caller is free to take the next tool invocation
Free(p) == call[p].tpc = "idle" \/ call[p].tpc = "done"

\* call_tool, main.py:634-676: a new invocation is taken
Accept(p) ==
    /\ Free(p)
    /\ invocations' = invocations + 1

\* what a single-call handler makes of the gateway's outcome
SingleCallOut(t, o) ==
    IF o.kind # "ok" THEN ErrorOut(o)
    ELSE CASE t.shape = "list" ->
                IF Truthy(o.body) THEN Out("report", "", 0) ELSE Out("empty", "", 0)
           [] t.shape = "object" ->
                IF o.body.type = "object" THEN Out("report", "", 0)
                ELSE Out("error", "AttributeError", 0)
           [] OTHER -> Out("report", "", 0)

\* a single-call handler up to its gateway call
handle_single_call(p, t, args) ==
    /\ Accept(p)
    /\ IF t.validates /\ ~args.ok
       THEN /\ call' = [call EXCEPT ![p] =
                Done(NewInvocation(t.name, "start", args), Out("missing_fields", "", 0))]
            /\ gw' = [gw EXCEPT ![p] = NoCall]
            /\ http_log' = [http_log EXCEPT ![p] = {}]
            /\ NoStamp
       ELSE /\ call' = [call EXCEPT ![p] = NewInvocation(t.name, "api", args)]
            /\ make_api_request(p, Ep(t.path, IF t.byId THEN args.id ELSE ""),
                                t.method, {})
    /\ UNCHANGED <<cache_vars, STOREHUB_API_KEY, STOREHUB_ACCOUNT_ID, api_configured, now,
                   actual_store_id_cache>>

\* a single-call handler from the return of its gateway call
single_call_returns(p) ==
    /\ call[p].tpc = "api"
    /\ gw[p].pc = "ret"
    /\ call' = [call EXCEPT ![p] =
         Done(call[p], SingleCallOut(ToolNamed(call[p].tool), gw[p].outcome))]
    /\ UNCHANGED <<cache_vars, STOREHUB_API_KEY, STOREHUB_ACCOUNT_ID, api_configured, now,
                   last_api_call_time, last_http_at, actual_store_id_cache, gw, http_log,
                   stamped, stamp_toggle, invocations>>

\* handle_get_inventory, main.py:678-751: the endpoint string names
\* STOREHUB_STORE_ID, which the module never defines, so building it raises
\* NameError before make_api_request is called
handle_get_inventory(p) ==
    /\ Accept(p)
    /\ call' = [call EXCEPT ![p] =
         Done(NewInvocation("get_inventory", "start", NoArgs),
              Out("error", "NameError", 0))]
    /\ gw' = [gw EXCEPT ![p] = NoCall]
    /\ http_log' = [http_log EXCEPT ![p] = {}]
    /\ UNCHANGED <<cache_vars, STOREHUB_API_KEY, STOREHUB_ACCOUNT_ID, api_configured, now,
                   last_api_call_time, last_http_at, actual_store_id_cache,
                   stamped, stamp_toggle>>

-----------------------------------------------------------------------------
(* Store resolver: get_actual_store_id, main.py:1720-1761 *)

\* a matcher that knows the id test only
StoreMatches_id_only(store, account) == account = store.id

\* lines 1747-1749: the configured account id is the store's id, is its
\* name (case-insensitive) or is contained in its name (case-insensitive)
StoreMatches(store, account) ==
    \/ account = store.id
    \/ Lower(account) = Lower(store.name)
    \/ Contains(Lower(account), Lower(store.name))

\* a resolver that goes through the whole list and keeps the last match
ChooseStore_last_match(stores, account) ==
    IF Len(stores) = 1 THEN stores[1].id
    ELSE LET matching == {i \in 1..Len(stores) : StoreMatches(stores[i], account)}
         IN IF matching # {}
            THEN stores[CHOOSE i \in matching : \A j \in matching : i >= j].id
            ELSE stores[1].id

\* a resolver that falls back to the last store of the list
ChooseStore_last(stores, account) ==
    IF Len(stores) = 1 THEN stores[1].id
    ELSE LET matching == {i \in 1..Len(stores) : StoreMatches(stores[i], account)}
         IN IF matching # {}
            THEN stores[CHOOSE i \in matching : \A j \in matching : i <= j].id
            ELSE stores[Len(stores)].id

\* lines 1735-1757: the id chosen from a non-empty store list; a missing
\* id (None) and an empty id are both the empty string here, both falsy
ChooseStore(stores, account) ==
    IF Len(stores) = 1 THEN stores[1].id
    ELSE LET matching == {i \in 1..Len(stores) : StoreMatches(stores[i], account)}
         IN IF matching # {}
            THEN stores[CHOOSE i \in matching : \A j \in matching : i <= j].id
            ELSE stores[1].id

\* a resolver that takes the account id for the store id when /stores
\* gives nothing
ResolveStore_account(o, account) ==
    IF o.kind = "ok" /\ Truthy(o.body)
    THEN [id |-> ChooseStore(o.body.items, account), assigned |-> TRUE]
    ELSE [id |-> account, assigned |-> TRUE]

\* lines 1728-1761 from the return of the /stores call: the value returned
\* and whether actual_store_id_cache is assigned it
ResolveStore(o, account) ==
    IF o.kind = "ok" /\ Truthy(o.body)
    THEN [id |-> ChooseStore(o.body.items, account), assigned |-> TRUE]
    ELSE [id |-> <<>>, assigned |-> FALSE]

\* a completed get_actual_store_id call: the value it returned
NoResolve == [done |-> FALSE, id |-> <<>>]
Resolved(id) == [done |-> TRUE, id |-> id]

\* a get_actual_store_id call: had = the cache as the call found it,
\* fetched = the call went to the gateway, prior = the call before it
NoStoreCall ==
    [spc |-> "idle", had |-> <<>>, fetched |-> FALSE, result |-> <<>>,
     prior |-> NoResolve]

\* a resolver that never finds its cache set
StoreCached_never == FALSE

\* line 1725: if actual_store_id_cache
StoreCached == actual_store_id_cache # <<>>

\* lines 1720-1729: the cached id is returned, or /stores is asked for
get_actual_store_id(p) ==
    /\ Accept(p)
    /\ name_call[p].lpc # "api" /\ store_call[p].spc # "api"
    /\ name_call' = [name_call EXCEPT ![p] =
         [lpc |-> "idle", id |-> "", current_time |-> 0, swept |-> FALSE,
          fetched |-> FALSE, raised |-> FALSE, result |-> <<>>,
          before |-> [done |-> FALSE, started |-> 0, cached |-> FALSE,
                      failed |-> FALSE, result |-> <<>>]]]
    /\ IF StoreCached
       THEN /\ store_call' = [store_call EXCEPT ![p] =
                [spc |-> "done", had |-> actual_store_id_cache, fetched |-> FALSE,
                 result |-> actual_store_id_cache, prior |-> last_resolve]]
            /\ last_resolve' = Resolved(actual_store_id_cache)
            /\ gw' = [gw EXCEPT ![p] = NoCall]
            /\ http_log' = [http_log EXCEPT ![p] = {}]
            /\ NoStamp
       ELSE /\ store_call' = [store_call EXCEPT ![p] =
                [spc |-> "api", had |-> actual_store_id_cache, fetched |-> TRUE,
                 result |-> <<>>, prior |-> last_resolve]]
            /\ UNCHANGED last_resolve
            /\ make_api_request(p, Ep("/stores", ""), "GET", {})
    /\ UNCHANGED <<STOREHUB_API_KEY, STOREHUB_ACCOUNT_ID, api_configured, now,
                   actual_store_id_cache, call, product_cache, last_lookup>>

\* lines 1729-1761: the /stores call returns
get_actual_store_id_returns(p) ==
    /\ store_call[p].spc = "api"
    /\ gw[p].pc = "ret"
    /\ LET res == ResolveStore(gw[p].outcome, STOREHUB_ACCOUNT_ID.val)
       IN /\ actual_store_id_cache' =
                (IF res.assigned THEN res.id ELSE actual_store_id_cache)
          /\ store_call' = [store_call EXCEPT ![p] =
                [store_call[p] EXCEPT !.spc = "done", !.result = res.id]]
          /\ last_resolve' = Resolved(res.id)
    /\ UNCHANGED <<STOREHUB_API_KEY, STOREHUB_ACCOUNT_ID, api_configured, now,
                   last_api_call_time, last_http_at, call, gw, http_log, stamped, stamp_toggle,
                   invocations, product_cache, name_call, last_lookup>>

-----------------------------------------------------------------------------
(* Product name cache: cleanup_cache and get_product_name_cached,          *)
(* main.py:91-135.  The cache holds an entry per product id of ProductIds  *)
(* and a batch of entries of other products, all cached at one time.       *)

CACHE_DURATION == 300000
SWEEP_THRESHOLD == 100

NoEntry == [present |-> FALSE, name |-> <<>>, time |-> 0]
Entry(name, t) == [present |-> TRUE, name |-> name, time |-> t]
NoOthers == [count |-> 0, time |-> 0]
EmptyCache == [named |-> [i \in ProductIds |-> NoEntry], others |-> NoOthers]

\* len(product_cache)
CacheLen(c) == Cardinality({i \in ProductIds : c.named[i].present}) + c.others.count

\* a sweep that also deletes an entry whose age is the TTL
Expired_at_ttl(t, cached_time) == t - cached_time >= CACHE_DURATION

\* line 97: current_time - cached_time > CACHE_DURATION
Expired(t, cached_time) == t - cached_time > CACHE_DURATION

\* lines 91-100: the expired entries are deleted
cleanup_cache(c, t) ==
    [named |-> [i \in ProductIds |->
                  IF c.named[i].present /\ Expired(t, c.named[i].time)
                  THEN NoEntry ELSE c.named[i]],
     others |-> IF c.others.count > 0 /\ Expired(t, c.others.time)
                THEN NoOthers ELSE c.others]

\* a cache that serves nothing
Fresh_never(t, e) == FALSE

\* a cache that still serves an entry whose age is the TTL
Fresh_at_ttl(t, e) == e.present /\ t - e.time <= CACHE_DURATION

\* lines 120-122: the key is in the cache and its age is below the TTL
Fresh(t, e) == e.present /\ t - e.time < CACHE_DURATION

\* f"Product {product_id}"
Placeholder(id) == <<"Product", id>>

\* a lookup that lets the failure of the fetch through
NameOutcome_unguarded(o, id) ==
    IF o.kind = "ok" /\ o.body.type = "object"
    THEN [raised |-> FALSE, cached |-> TRUE, failed |-> FALSE,
          name |-> IF o.body.items # <<>> THEN o.body.items[1].name ELSE Placeholder(id)]
    ELSE [raised |-> TRUE, cached |-> FALSE, failed |-> TRUE, name |-> <<>>]

\* a lookup that caches the placeholder of a failed fetch
NameOutcome_caches_failure(o, id) ==
    IF o.kind = "ok" /\ o.body.type = "object"
    THEN [raised |-> FALSE, cached |-> TRUE, failed |-> FALSE,
          name |-> IF o.body.items # <<>> THEN o.body.items[1].name ELSE Placeholder(id)]
    ELSE [raised |-> FALSE, cached |-> TRUE, failed |-> TRUE, name |-> Placeholder(id)]

\* lines 126-135: the name taken from the product details, the placeholder
\* when they have no "name"; when the fetch failed or gave no object (.get
\* raises AttributeError) the placeholder, which is not cached; failed = the
\* except branch of line 133 ran
NameOutcome(o, id) ==
    IF o.kind = "ok" /\ o.body.type = "object"
    THEN [raised |-> FALSE, cached |-> TRUE, failed |-> FALSE,
          name |-> IF o.body.items # <<>> THEN o.body.items[1].name ELSE Placeholder(id)]
    ELSE [raised |-> FALSE, cached |-> FALSE, failed |-> TRUE, name |-> Placeholder(id)]

\* a completed get_product_name_cached call: the time it took as
\* current_time, whether it cached what it fetched, and what it returned
NoLookup ==
    [done |-> FALSE, started |-> 0, cached |-> FALSE, failed |-> FALSE, result |-> <<>>]
Lookup(t, cached, failed, result) ==
    [done |-> TRUE, started |-> t, cached |-> cached, failed |-> failed,
     result |-> result]

\* a get_product_name_cached call: swept = it ran cleanup_cache, fetched =
\* it went to the gateway, before = the call before it for the same id
NoNameCall ==
    [lpc |-> "idle", id |-> "", current_time |-> 0, swept |-> FALSE,
     fetched |-> FALSE, raised |-> FALSE, result |-> <<>>, before |-> NoLookup]

\* lines 108-127: the sweep of a large cache, the cache check, and on a
\* miss the gateway call up to its first suspension
get_product_name_cached(p, id) ==
    /\ Accept(p)
    /\ name_call[p].lpc # "api" /\ store_call[p].spc # "api"
    /\ store_call' = [store_call EXCEPT ![p] = NoStoreCall]
    /\ LET large == CacheLen(product_cache) > SWEEP_THRESHOLD
           cache == IF large THEN cleanup_cache(product_cache, now) ELSE product_cache
           e == cache.named[id]
           c == [NoNameCall EXCEPT !.id = id, !.current_time = now, !.swept = large,
                                   !.before = last_lookup[id]]
       IN /\ product_cache' = cache
          /\ IF Fresh(now, e)
             THEN /\ name_call' = [name_call EXCEPT ![p] =
                        [c EXCEPT !.lpc = "done", !.result = e.name]]
                  /\ last_lookup' = [last_lookup EXCEPT ![id] = Lookup(now, FALSE, FALSE, e.name)]
                  /\ gw' = [gw EXCEPT ![p] = NoCall]
                  /\ http_log' = [http_log EXCEPT ![p] = {}]
                  /\ NoStamp
             ELSE /\ name_call' = [name_call EXCEPT ![p] =
                        [c EXCEPT !.lpc = "api", !.fetched = TRUE]]
                  /\ UNCHANGED last_lookup
                  /\ make_api_request(p, Ep("/products/{id}", id), "GET", {})
    /\ UNCHANGED <<STOREHUB_API_KEY, STOREHUB_ACCOUNT_ID, api_configured, now,
                   actual_store_id_cache, call, last_resolve>>

\* lines 127-135: the gateway call returns; a fetched name is cached with
\* the time the call took at its start
get_product_name_cached_returns(p) ==
    /\ name_call[p].lpc = "api"
    /\ gw[p].pc = "ret"
    /\ LET c == name_call[p]
           r == NameOutcome(gw[p].outcome, c.id)
       IN /\ product_cache' =
                (IF r.cached
                 THEN [product_cache EXCEPT !.named[c.id] = Entry(r.name, c.current_time)]
                 ELSE product_cache)
          /\ name_call' = [name_call EXCEPT ![p] =
                [c EXCEPT !.lpc = "done", !.raised = r.raised, !.result = r.name]]
          /\ last_lookup' = [last_lookup EXCEPT ![c.id] =
                Lookup(c.current_time, r.cached, r.failed, r.name)]
    /\ UNCHANGED <<STOREHUB_API_KEY, STOREHUB_ACCOUNT_ID, api_configured, now,
                   last_api_call_time, last_http_at, actual_store_id_cache, call, gw, http_log,
                   stamped, stamp_toggle, invocations, store_call, last_resolve>>

-----------------------------------------------------------------------------
(* handle_get_sales_analytics, main.py:971-1256 *)

CHUNK_DAYS == 14
MAX_RANGE_DAYS == 90

\* a min that gives its first argument
Min_first(a, b) == a

Min(a, b) == IF a < b THEN a ELSE b

\* a fetch that chunks a range of 14 days too
StartFetch_strict(p, c, store, log) ==
    IF c.args.to - c.args.from < CHUNK_DAYS
    THEN /\ call' = [call EXCEPT ![p] = [c EXCEPT !.tpc = "tx", !.tx_calls = 1]]
         /\ make_api_request(p, EpRange("/transactions", c.args.from, c.args.to, store),
                             "GET", log)
    ELSE /\ call' = [call EXCEPT ![p] =
                [c EXCEPT !.tpc = "chunk", !.date = c.args.from, !.tx_calls = 1]]
         /\ make_api_request(p, EpRange("/transactions", c.args.from,
                                        c.args.from + CHUNK_DAYS, store),
                             "GET", log)

\* lines 1006-1051, the start of the fetch once the store id is known: one
\* call for a range of at most 14 days, else the first chunk
StartFetch(p, c, store, log) ==
    IF c.args.to - c.args.from <= CHUNK_DAYS
    THEN /\ call' = [call EXCEPT ![p] = [c EXCEPT !.tpc = "tx", !.tx_calls = 1]]
         /\ make_api_request(p, EpRange("/transactions", c.args.from, c.args.to, store),
                             "GET", log)
    ELSE /\ call' = [call EXCEPT ![p] =
                [c EXCEPT !.tpc = "chunk", !.date = c.args.from, !.tx_calls = 1]]
         /\ make_api_request(p, EpRange("/transactions", c.args.from,
                                        Min(c.args.from + CHUNK_DAYS, c.args.to), store),
                             "GET", log)

\* lines 1053-1253: the report; the transactions the remote returns here
\* carry no items, so no product name is looked up
SalesReport(txs) ==
    IF txs = <<>> THEN Out("no_transactions", "", 0) ELSE Out("report", "", Len(txs))

\* lines 1061-1063: the number of API calls the report of a chunked fetch
\* states
chunks_count(date_diff) ==
    (date_diff \div CHUNK_DAYS) + (IF date_diff % CHUNK_DAYS > 0 THEN 1 ELSE 0)

\* lines 1001-1002: get_actual_store_id gave no id, whatever made the
\* /stores call fail (lines 1759-1761 swallow the exception)
NoStoreOut(o) == Out("no_store_id", "", 0)

\* a handler that resolves the store before it looks at the range
handle_get_sales_analytics_unvalidated(p, args) ==
    /\ Accept(p)
    /\ LET c == NewInvocation("get_sales_analytics", "start", args)
       IN IF actual_store_id_cache # <<>>
          THEN StartFetch(p, c, actual_store_id_cache, {})
          ELSE /\ call' = [call EXCEPT ![p] = [c EXCEPT !.tpc = "stores"]]
               /\ make_api_request(p, Ep("/stores", ""), "GET", {})
    /\ UNCHANGED <<cache_vars, STOREHUB_API_KEY, STOREHUB_ACCOUNT_ID, api_configured, now,
                   actual_store_id_cache>>

\* lines 971-1002: validation, then get_actual_store_id up to its /stores call
handle_get_sales_analytics(p, args) ==
    /\ Accept(p)
    /\ LET c == NewInvocation("get_sales_analytics", "start", args)
           date_diff == args.to - args.from
           rejected(kind) ==
               /\ call' = [call EXCEPT ![p] = Done(c, Out(kind, "", 0))]
               /\ gw' = [gw EXCEPT ![p] = NoCall]
               /\ http_log' = [http_log EXCEPT ![p] = {}]
               /\ NoStamp
       IN IF ~args.ok THEN rejected("invalid_format")
          ELSE IF date_diff > MAX_RANGE_DAYS THEN rejected("range_too_large")
          ELSE IF date_diff < 0 THEN rejected("invalid_range")
          ELSE IF actual_store_id_cache # <<>>
          THEN StartFetch(p, c, actual_store_id_cache, {})
          ELSE /\ call' = [call EXCEPT ![p] = [c EXCEPT !.tpc = "stores"]]
               /\ make_api_request(p, Ep("/stores", ""), "GET", {})
    /\ UNCHANGED <<cache_vars, STOREHUB_API_KEY, STOREHUB_ACCOUNT_ID, api_configured, now,
                   actual_store_id_cache>>

\* a handler that goes on with the account id when no store id was found
sales_stores_returns_unresolved(p) ==
    /\ call[p].tpc = "stores"
    /\ gw[p].pc = "ret"
    /\ LET res == ResolveStore(gw[p].outcome, STOREHUB_ACCOUNT_ID.val)
       IN /\ actual_store_id_cache' =
                (IF res.assigned THEN res.id ELSE actual_store_id_cache)
          /\ IF res.id = <<>>
             THEN StartFetch(p, call[p], STOREHUB_ACCOUNT_ID.val, http_log[p])
             ELSE StartFetch(p, call[p], res.id, http_log[p])
    /\ UNCHANGED <<cache_vars, STOREHUB_API_KEY, STOREHUB_ACCOUNT_ID, api_configured, now,
                   invocations>>

\* lines 1000-1002 and 1728-1761: the /stores call of get_actual_store_id
\* returns; without a store id the handler gives up, else the fetch starts
sales_stores_returns(p) ==
    /\ call[p].tpc = "stores"
    /\ gw[p].pc = "ret"
    /\ LET res == ResolveStore(gw[p].outcome, STOREHUB_ACCOUNT_ID.val)
       IN /\ actual_store_id_cache' =
                (IF res.assigned THEN res.id ELSE actual_store_id_cache)
          /\ IF res.id = <<>>
             THEN /\ call' = [call EXCEPT ![p] = Done(call[p], NoStoreOut(gw[p].outcome))]
                  /\ UNCHANGED <<gw, http_log>>
                  /\ NoStamp
             ELSE StartFetch(p, call[p], res.id, http_log[p])
    /\ UNCHANGED <<cache_vars, STOREHUB_API_KEY, STOREHUB_ACCOUNT_ID, api_configured, now,
                   invocations>>

\* lines 1018-1019, 1053-1256: the single /transactions call returns
sales_single_returns(p) ==
    /\ call[p].tpc = "tx"
    /\ gw[p].pc = "ret"
    /\ LET o == gw[p].outcome
           txs == IF Truthy(o.body) THEN o.body.items ELSE <<>>
       IN call' = [call EXCEPT ![p] =
            IF o.kind = "ok"
            THEN Done([call[p] EXCEPT !.txs = txs], SalesReport(txs))
            ELSE Done(call[p], ErrorOut(o))]
    /\ UNCHANGED <<cache_vars, STOREHUB_API_KEY, STOREHUB_ACCOUNT_ID, api_configured, now,
                   last_api_call_time, last_http_at, actual_store_id_cache, gw, http_log,
                   stamped, stamp_toggle, invocations>>

\* a loop that drops what it has when a chunk's call fails
ChunkRecords_reset(c, o) ==
    IF o.kind # "ok" THEN <<>>
    ELSE IF Truthy(o.body) THEN c.txs \o o.body.items ELSE c.txs

\* lines 1042-1049: the records after the chunk's call: those of the chunk
\* are appended when the call returned some; a failed call is logged only
ChunkRecords(c, o) ==
    IF o.kind = "ok" /\ Truthy(o.body) THEN c.txs \o o.body.items ELSE c.txs

\* a loop that asks again for a chunk whose call failed
NextChunkStart_retry(c, o) ==
    IF o.kind # "ok" THEN c.date ELSE Min(c.date + CHUNK_DAYS, c.args.to) + 1

\* lines 1029 and 1051: current_date = chunk_end + timedelta(days=1), after
\* the try block, whatever the call's outcome o
NextChunkStart(c, o) == Min(c.date + CHUNK_DAYS, c.args.to) + 1

\* a loop that puts a chunk's records before those it already has
sales_chunk_returns_prepend(p) ==
    /\ call[p].tpc = "chunk"
    /\ gw[p].pc = "ret"
    /\ LET c == call[p]
           o == gw[p].outcome
           store == gw[p].endpoint.store
           chunk_end == Min(c.date + CHUNK_DAYS, c.args.to)
           current_date == chunk_end + 1
           txs == IF o.kind = "ok" /\ Truthy(o.body) THEN o.body.items \o c.txs ELSE c.txs
           skipped == c.skipped + (IF o.kind = "ok" THEN 0 ELSE 1)
       IN IF current_date <= c.args.to
          THEN /\ call' = [call EXCEPT ![p] =
                      [c EXCEPT !.date = current_date, !.txs = txs,
                                !.tx_calls = c.tx_calls + 1, !.skipped = skipped]]
               /\ make_api_request(p, EpRange("/transactions", current_date,
                                              Min(current_date + CHUNK_DAYS, c.args.to), store),
                                   "GET", http_log[p])
          ELSE /\ call' = [call EXCEPT ![p] =
                      Done([c EXCEPT !.txs = txs, !.skipped = skipped], SalesReport(txs))]
               /\ UNCHANGED <<gw, http_log>>
               /\ NoStamp
    /\ UNCHANGED <<cache_vars, STOREHUB_API_KEY, STOREHUB_ACCOUNT_ID, api_configured, now,
                   actual_store_id_cache, invocations>>

\* lines 1028-1051: a chunk's call returns; its records are appended, or
\* the chunk is skipped, and the loop goes on to the next chunk or ends
sales_chunk_returns(p) ==
    /\ call[p].tpc = "chunk"
    /\ gw[p].pc = "ret"
    /\ LET c == call[p]
           o == gw[p].outcome
           store == gw[p].endpoint.store
           current_date == NextChunkStart(c, o)
           txs == ChunkRecords(c, o)
           skipped == c.skipped + (IF o.kind = "ok" THEN 0 ELSE 1)
       IN IF current_date <= c.args.to
          THEN /\ call' = [call EXCEPT ![p] =
                      [c EXCEPT !.date = current_date, !.txs = txs,
                                !.tx_calls = c.tx_calls + 1, !.skipped = skipped]]
               /\ make_api_request(p, EpRange("/transactions", current_date,
                                              Min(current_date + CHUNK_DAYS, c.args.to), store),
                                   "GET", http_log[p])
          ELSE /\ call' = [call EXCEPT ![p] =
                      Done([c EXCEPT !.txs = txs, !.skipped = skipped], SalesReport(txs))]
               /\ UNCHANGED <<gw, http_log>>
               /\ NoStamp
    /\ UNCHANGED <<cache_vars, STOREHUB_API_KEY, STOREHUB_ACCOUNT_ID, api_configured, now,
                   actual_store_id_cache, invocations>>

-----------------------------------------------------------------------------
(* Specifications *)

Init ==
    /\ STOREHUB_API_KEY \in ApiKeyValues
    /\ STOREHUB_ACCOUNT_ID \in AccountIdValues
    /\ api_configured = ApiConfigured(STOREHUB_API_KEY, STOREHUB_ACCOUNT_ID)
    /\ now = StartTime
    /\ last_api_call_time = 0
    /\ actual_store_id_cache = <<>>
    /\ call = [p \in Procs |-> Idle]
    /\ gw = [p \in Procs |-> NoCall]
    /\ http_log = [p \in Procs |-> {}]
    /\ stamped = FALSE
    /\ stamp_toggle = FALSE
    /\ invocations = 0
    /\ product_cache = EmptyCache
    /\ name_call = [p \in Procs |-> NoNameCall]
    /\ store_call = [p \in Procs |-> NoStoreCall]
    /\ last_lookup = [i \in ProductIds |-> NoLookup]
    /\ last_resolve = NoResolve
    /\ last_http_at = 0

\* the arguments an invocation of tool t may carry
ArgSet(t) ==
    IF t.validates
    THEN {Args(TRUE, id, NoDay, NoDay) : id \in RefIds} \cup {Args(FALSE, "", NoDay, NoDay)}
    ELSE {NoArgs}

\* the date ranges a get_sales_analytics invocation may carry
FirstDay == 10
Spans == {-1, 0, 14, 15, 29, 91}
SalesArgSet ==
    {Args(TRUE, "", FirstDay, FirstDay + span) : span \in Spans}
    \cup {Args(FALSE, "", NoDay, NoDay)}

\* the steps of a caller that do not start an invocation
Continue(p) ==
    \/ rate_limited_delay_resume(p)
    \/ gw[p].pc = "http1" /\ \E r \in Responses(gw[p].endpoint) : first_response(p, r)
    \/ retry_send(p)
    \/ gw[p].pc = "http2" /\ \E r \in Responses(gw[p].endpoint) : retry_response(p, r)
    \/ single_call_returns(p)
    \/ sales_stores_returns(p)
    \/ sales_single_returns(p)
    \/ sales_chunk_returns(p)

\* a caller takes a tool invocation
Invoke(p) ==
    \/ \E t \in SingleCallTools : \E a \in ArgSet(t) : handle_single_call(p, t, a)
    \/ handle_get_inventory(p)
    \/ \E a \in SalesArgSet : handle_get_sales_analytics(p, a)

\* one tool invocation at a time, each run to completion
Next ==
    \/ \E p \in SerialProcs : invocations < MaxInvocations /\ Invoke(p)
    \/ \E p \in SerialProcs : Continue(p)
    \/ \E d \in TickSteps : Tick(d)

Spec == Init /\ [][Next]_vars

\* asyncio wakes a sleeping coroutine when its timer is due: the clock does
\* not advance by d when that leaves a sleeper waiting a whole clock step
\* past its wake-up time
Punctual(d) ==
    \A p \in Procs :
        gw[p].pc \in {"rl_sleep", "cooldown"} => now + d < gw[p].wake + Resolution

\* the host dispatches invocations concurrently (here get_products only),
\* and every sleeper wakes on time
NextConcurrent ==
    \/ \E p \in Procs : /\ invocations < MaxConcurrentInvocations
                          /\ handle_single_call(p, get_products, NoArgs)
    \/ \E p \in Procs : rate_limited_delay_resume(p)
    \/ \E p \in Procs : gw[p].pc = "http1" /\ \E r \in Responses(gw[p].endpoint) : first_response(p, r)
    \/ \E p \in Procs : retry_send(p)
    \/ \E p \in Procs : gw[p].pc = "http2" /\ \E r \in Responses(gw[p].endpoint) : retry_response(p, r)
    \/ \E p \in Procs : single_call_returns(p)
    \/ \E d \in TickSteps : Punctual(d) /\ Tick(d)

SpecConcurrent == Init /\ [][NextConcurrent]_vars

\* the calls made on the two caches, one at a time, over a time long
\* enough for the entries to expire
MaxLookups == 3
LongTick == 150000
CacheTickSteps == {LongTick, LongTick + 1000}
MaxCacheTime == StartTime + 2 * LongTick + 2000

\* a cache already holding more than SWEEP_THRESHOLD entries of other
\* products, cached when the clock read 0
OtherEntries == [count |-> SWEEP_THRESHOLD + 1, time |-> 0]

\* as Init, with the product cache empty or already large
InitCaches ==
    /\ STOREHUB_API_KEY \in ApiKeyValues
    /\ STOREHUB_ACCOUNT_ID \in AccountIdValues
    /\ api_configured = ApiConfigured(STOREHUB_API_KEY, STOREHUB_ACCOUNT_ID)
    /\ now = StartTime
    /\ last_api_call_time = 0
    /\ actual_store_id_cache = <<>>
    /\ call = [p \in Procs |-> Idle]
    /\ gw = [p \in Procs |-> NoCall]
    /\ http_log = [p \in Procs |-> {}]
    /\ stamped = FALSE
    /\ stamp_toggle = FALSE
    /\ invocations = 0
    /\ product_cache \in {EmptyCache, [EmptyCache EXCEPT !.others = OtherEntries]}
    /\ name_call = [p \in Procs |-> NoNameCall]
    /\ store_call = [p \in Procs |-> NoStoreCall]
    /\ last_lookup = [i \in ProductIds |-> NoLookup]
    /\ last_resolve = NoResolve
    /\ last_http_at = 0

Elapse(d) ==
    /\ now + d <= MaxCacheTime
    /\ now' = now + d
    /\ UNCHANGED <<cache_vars, STOREHUB_API_KEY, STOREHUB_ACCOUNT_ID, api_configured,
                   last_api_call_time, last_http_at, actual_store_id_cache, call, gw, http_log,
                   stamped, stamp_toggle, invocations>>

NextCaches ==
    \/ \E p \in SerialProcs : \E id \in ProductIds :
          invocations < MaxLookups /\ get_product_name_cached(p, id)
    \/ \E p \in SerialProcs : get_product_name_cached_returns(p)
    \/ \E p \in SerialProcs : invocations < MaxLookups /\ get_actual_store_id(p)
    \/ \E p \in SerialProcs : get_actual_store_id_returns(p)
    \/ \E p \in SerialProcs : rate_limited_delay_resume(p)
    \/ \E p \in SerialProcs : gw[p].pc = "http1" /\ \E r \in Responses(gw[p].endpoint) : first_response(p, r)
    \/ \E p \in SerialProcs : retry_send(p)
    \/ \E p \in SerialProcs : gw[p].pc = "http2" /\ \E r \in Responses(gw[p].endpoint) : retry_response(p, r)
    \/ \E d \in CacheTickSteps : Elapse(d)

SpecCaches == InitCaches /\ [][NextCaches]_vars

\* the fetches of get_sales_analytics that go through the chunk loop, of
\* two, three and four chunks; an HTTP attempt is answered in no time here,
\* and the clock advances when a call sleeps
MaxFetches == 1
ChunkedSpans == {15, 30, 45}
ChunkedArgSet == {Args(TRUE, "", FirstDay, FirstDay + span) : span \in ChunkedSpans}

\* asyncio.sleep returns: the clock reaches the time a sleeping call wakes at
Awake(p) ==
    /\ gw[p].pc \in {"rl_sleep", "cooldown"}
    /\ now < gw[p].wake
    /\ now' = gw[p].wake
    /\ UNCHANGED <<cache_vars, STOREHUB_API_KEY, STOREHUB_ACCOUNT_ID, api_configured,
                   last_api_call_time, last_http_at, actual_store_id_cache, call, gw, http_log,
                   stamped, stamp_toggle, invocations>>

\* the steps of a fetch in progress: its sleeps end, its HTTP attempts are
\* answered or fail, and the handler goes on when a gateway call is over
FetchStep(p) ==
    \/ Awake(p)
    \/ rate_limited_delay_resume(p)
    \/ gw[p].pc = "http1" /\ \E r \in Responses(gw[p].endpoint) : first_response(p, r)
    \/ retry_send(p)
    \/ gw[p].pc = "http2" /\ \E r \in Responses(gw[p].endpoint) : retry_response(p, r)
    \/ sales_stores_returns(p)
    \/ sales_chunk_returns(p)

NextChunks ==
    \/ \E p \in SerialProcs : \E a \in ChunkedArgSet :
          invocations < MaxFetches /\ handle_get_sales_analytics(p, a)
    \/ \E p \in SerialProcs : FetchStep(p)

\* the event loop runs a coroutine that can go on, every timer fires and
\* every HTTP attempt ends (the client's timeout is 30 s)
SpecChunks ==
    Init /\ [][NextChunks]_vars /\ WF_vars(\E p \in SerialProcs : FetchStep(p))

-----------------------------------------------------------------------------
(* Claims *)

IsOk200(r) == r.kind = "status" /\ IsSuccess(r)
Sent(r) == r.kind # "none"

\* C1: with the callers serialized, every acquisition after the first
\* stamps last_api_call_time at least RATE_LIMIT_DELAY after the stamp of
\* the acquisition before it, whether it suspended or not.
C1_SerializedSpacing ==
    [][(stamped /\ stamp_toggle' # stamp_toggle)
         => last_api_call_time' - last_api_call_time >= RATE_LIMIT_DELAY]_vars

\* a second acquisition of one invocation has completed after suspending
C1_Witness ==
    \E p \in Procs :
        /\ gw[p].pc = "http1" /\ gw[p].slept
        /\ gw[p].endpoint.path = "/transactions"
        /\ \E r \in http_log[p] : r.endpoint.path = "/stores"

\* C2: with callers interleaving at the suspension point of
\* rate_limited_delay, two consecutive acquisitions still stamp at least
\* RATE_LIMIT_DELAY apart.
C2_ConcurrentSpacing ==
    [][(stamped /\ stamp_toggle' # stamp_toggle)
         => last_api_call_time' >= last_api_call_time + RATE_LIMIT_DELAY]_vars

\* C3: a gateway call whose first attempt got 409 and whose retry succeeded
\* returns the retry's parsed body after exactly 2 attempts and exactly one
\* cooldown of at least RETRY_WAIT between the 409 and the retry.
C3_RetrySuccess ==
    \A p \in Procs :
        (gw[p].pc = "ret" /\ IsConflict(gw[p].first) /\ IsOk200(gw[p].retry))
        => /\ gw[p].outcome = Ok(gw[p].retry.body)
           /\ gw[p].attempts = 2
           /\ gw[p].cooldowns = 1
           /\ gw[p].waited >= RETRY_WAIT

C3_Witness ==
    \E p \in Procs :
        /\ gw[p].pc = "ret" /\ IsConflict(gw[p].first)
        /\ gw[p].retry = HttpStatus(200, JList(<<Item>>))
        /\ gw[p].outcome.body = JList(<<Item>>)

\* C4: a gateway call never makes a third attempt nor a second cooldown,
\* and when its first attempt got 409 and the retry failed in any way it
\* fails with the rate-limit-exceeded error after exactly 2 attempts.
C4_RetryOnce ==
    \A p \in Procs :
        /\ gw[p].attempts <= 2
        /\ gw[p].cooldowns <= 1
        /\ (gw[p].pc = "ret" /\ IsConflict(gw[p].first)
              /\ Sent(gw[p].retry) /\ ~IsOk200(gw[p].retry))
           => (gw[p].outcome = Raise("RateLimitExceeded", 0) /\ gw[p].attempts = 2)
        /\ (IsConflict(gw[p].first) /\ gw[p].pc = "ret") => Sent(gw[p].retry)

C4_Witness ==
    \E p \in Procs :
        /\ gw[p].pc = "ret" /\ IsConflict(gw[p].first) /\ IsConflict(gw[p].retry)
        /\ gw[p].outcome.kind = "RateLimitExceeded"

\* C5: a gateway call whose first attempt failed otherwise than with a 409
\* status makes no retry: one attempt, no cooldown, and the failure is
\* raised to the caller, as ApiError with the status for an error status.
C5_NoRetryOtherwise ==
    \A p \in Procs :
        (gw[p].pc = "ret" /\ Sent(gw[p].first) /\ ~IsOk200(gw[p].first)
           /\ ~(gw[p].first.kind = "status" /\ gw[p].first.status = 409))
        => /\ gw[p].attempts = 1
           /\ gw[p].cooldowns = 0
           /\ ~Sent(gw[p].retry)
           /\ gw[p].outcome.kind \in {"ApiError", "Timeout", "NetworkError", "JSONDecodeError"}
           /\ gw[p].first.kind = "status" => gw[p].outcome = Raise("ApiError", gw[p].first.status)
           /\ gw[p].first.kind = "timeout" => gw[p].outcome.kind = "Timeout"
           /\ gw[p].first.kind = "neterr" => gw[p].outcome.kind = "NetworkError"

C5_Witness ==
    \E p \in Procs :
        /\ gw[p].pc = "ret" /\ gw[p].first = HttpStatus(500, ErrorBody)
        /\ gw[p].outcome = Raise("ApiError", 500)
        /\ call[p].tpc = "done" /\ call[p].out = Out("error", "ApiError", 500)

\* C6: without credentials every gateway call, whatever its endpoint and
\* method, fails with the not-configured error, and no HTTP attempt is made
\* nor the rate limiter touched.
C6_NotConfigured ==
    ~api_configured =>
        /\ ~stamped
        /\ \A p \in Procs :
              /\ http_log[p] = {}
              /\ gw[p].attempts = 0
              /\ gw[p].pc \in {"none", "ret"}
              /\ gw[p].pc = "ret" => gw[p].outcome = Raise("NotConfigured", 0)

C6_Witness ==
    /\ ~api_configured
    /\ \E p \in Procs :
          /\ gw[p].pc = "ret" /\ gw[p].method = "POST"
          /\ gw[p].outcome.kind = "NotConfigured"

\* C7 as stated: every gateway call whose method is outside {GET, POST}
\* fails with the unsupported-method error and makes no HTTP attempt.
C7_UnsupportedAlways ==
    \A p \in Procs :
        (gw[p].pc = "ret" /\ gw[p].method \notin {"GET", "POST"})
        => (gw[p].outcome.kind = "UnsupportedMethod" /\ gw[p].attempts = 0)

\* C7, amended: on a configured system a gateway call whose method is
\* outside {GET, POST} fails with the unsupported-method error; configured
\* or not, no HTTP request is ever sent for a call with such a method.
C7_UnsupportedWhenConfigured ==
    \A p \in Procs :
        /\ \A r \in http_log[p] : r.method \in {"GET", "POST"}
        /\ gw[p].method \notin {"GET", "POST"} =>
              /\ gw[p].attempts = 0
              /\ gw[p].pc \in {"rl_sleep", "ret"}
              /\ (api_configured /\ gw[p].pc = "ret")
                    => gw[p].outcome = Raise("UnsupportedMethod", 0)

C7_Witness ==
    \E p \in Procs :
        /\ api_configured
        /\ gw[p].pc = "ret" /\ gw[p].method = "PUT"
        /\ gw[p].outcome.kind = "UnsupportedMethod"
        /\ http_log[p] = {}

\* C8: a well-formed update_customer invocation on a configured system
\* sends a PUT request to /customers/{refId}.
C8_UpdateCustomerSendsPut ==
    \A p \in Procs :
        (api_configured /\ call[p].tool = "update_customer"
           /\ call[p].tpc = "done" /\ call[p].args.ok)
        => [method |-> "PUT", endpoint |-> Ep("/customers/{id}", call[p].args.id)]
              \in http_log[p]

\* C9: a get_inventory invocation on a configured system sends at least one
\* HTTP request to /inventory/{id} before it returns.
C9_GetInventoryCallsGateway ==
    \A p \in Procs :
        (api_configured /\ call[p].tool = "get_inventory" /\ call[p].tpc = "done")
        => \E r \in http_log[p] : r.endpoint.path = "/inventory/{id}"

\* the text tool c gives when the gateway call it starts with fails with
\* the exception kind
FirstCallFailureOut(c, kind) ==
    IF c.tool = "get_sales_analytics" THEN NoStoreOut(Raise(kind, 0))
    ELSE SingleCallOut(ToolNamed(c.tool), Raise(kind, 0))

\* C10: without credentials, every tool invocation that gets as far as a
\* gateway call, get_sales_analytics included, reports the not-configured
\* condition, with a text other than the one it gives for a network failure.
C10_NotConfiguredReported ==
    \A p \in Procs :
        (~api_configured /\ call[p].tpc = "done" /\ gw[p].pc = "ret")
        => /\ call[p].out.msg = "NotConfigured"
           /\ call[p].out # FirstCallFailureOut(call[p], "NetworkError")
           /\ call[p].out # FirstCallFailureOut(call[p], "Timeout")

\* C11: a get_product_name_cached call that follows, for the same id, a
\* call that fetched and cached the name, and that starts less than
\* CACHE_DURATION after that call took its time, makes no gateway call and
\* returns the cached name: one fetch for the two calls.
C11_SecondCallServedFromCache ==
    \A p \in Procs :
        LET c == name_call[p]
        IN (c.lpc # "idle" /\ c.before.done /\ c.before.cached
              /\ c.current_time - c.before.started < CACHE_DURATION)
           => /\ c.lpc = "done" /\ ~c.fetched
              /\ c.result = c.before.result
              /\ gw[p] = NoCall /\ http_log[p] = {}

C11_Witness ==
    \E p \in Procs :
        /\ name_call[p].lpc = "done" /\ ~name_call[p].fetched
        /\ name_call[p].before.cached
        /\ name_call[p].current_time - name_call[p].before.started = LongTick
        /\ name_call[p].result = <<"N", "p1">>

\* C12: a get_product_name_cached call that starts CACHE_DURATION or more
\* after the call before it for the same id took its time goes to the
\* gateway: with the fetch of the first call that is two fetches, and an
\* entry whose age has reached the TTL is not served.
C12_ExpiredEntryFetchedAgain ==
    \A p \in Procs :
        LET c == name_call[p]
        IN (c.lpc # "idle" /\ c.before.done
              /\ c.current_time - c.before.started >= CACHE_DURATION)
           => /\ c.fetched
              /\ gw[p].endpoint = Ep("/products/{id}", c.id)
              /\ (c.lpc = "done" /\ gw[p].outcome.kind = "ok"
                     /\ gw[p].outcome.body.type = "object")
                 => product_cache.named[c.id] = Entry(c.result, c.current_time)

C12_Witness ==
    \E p \in Procs :
        /\ name_call[p].lpc = "done" /\ name_call[p].fetched
        /\ name_call[p].before.cached
        /\ name_call[p].current_time - name_call[p].before.started = CACHE_DURATION
        /\ name_call[p].result = <<"N", "p2">>

\* the fetch of a product's details failed, or gave no object, or an
\* object without a name
LookupFailed(o) ==
    o.kind # "ok" \/ o.body.type # "object" \/ o.body.items = <<>>

\* C13: get_product_name_cached never raises, returns a name whenever it
\* returns, and returns the placeholder "Product {id}" when the lookup
\* failed in any way.
C13_LookupNeverFails ==
    \A p \in Procs :
        LET c == name_call[p]
        IN /\ ~c.raised
           /\ c.lpc = "done" => c.result # <<>>
           /\ (c.lpc = "done" /\ c.fetched /\ LookupFailed(gw[p].outcome))
              => c.result = Placeholder(c.id)

C13_Witness ==
    \E p \in Procs :
        /\ name_call[p].lpc = "done" /\ name_call[p].fetched
        /\ gw[p].outcome.kind = "RateLimitExceeded"
        /\ name_call[p].result = <<"Product", "p1">>

\* a completed get_actual_store_id call of p whose /stores call returned a
\* list of several stores
SeveralStores(p) ==
    /\ store_call[p].spc = "done" /\ store_call[p].fetched
    /\ gw[p].outcome.kind = "ok" /\ gw[p].outcome.body.type = "list"
    /\ Len(gw[p].outcome.body.items) >= 2

NameEquals(store, account) == Lower(account) = Lower(store.name)

\* C14 as stated: with several stores, a store whose name equals the
\* account id case-insensitively is the one whose id is returned, wherever
\* it is in the list and whatever the other stores are.
C14_NameEqualityPreferred ==
    \A p \in Procs :
        SeveralStores(p) =>
            LET stores == gw[p].outcome.body.items
            IN \A i \in 1..Len(stores) :
                  NameEquals(stores[i], STOREHUB_ACCOUNT_ID.val)
                  => store_call[p].result = stores[i].id

\* C14, amended: with several stores, a store whose name equals the
\* account id case-insensitively is the one whose id is returned and cached
\* when no store before it in the list matches the account id by id, by
\* name equality or by name containment.
C14_FirstMatchReturned ==
    \A p \in Procs :
        SeveralStores(p) =>
            LET stores == gw[p].outcome.body.items
                account == STOREHUB_ACCOUNT_ID.val
            IN \A i \in 1..Len(stores) :
                  (NameEquals(stores[i], account)
                     /\ \A j \in 1..(i - 1) : ~StoreMatches(stores[j], account))
                  => /\ store_call[p].result = stores[i].id
                     /\ actual_store_id_cache = stores[i].id

C14_Witness ==
    \E p \in Procs :
        /\ SeveralStores(p)
        /\ gw[p].outcome.body.items[1].name = <<"x">>
        /\ gw[p].outcome.body.items[2].name = <<"a", "B">>
        /\ store_call[p].result = <<"s", "1">>

\* C15: with several stores none of which matches the account id, the id
\* of the first store of the list is returned and is the value of the
\* store-identity cache.
C15_FallbackToFirstStore ==
    \A p \in Procs :
        SeveralStores(p) =>
            LET stores == gw[p].outcome.body.items
            IN (\A i \in 1..Len(stores) : ~StoreMatches(stores[i], STOREHUB_ACCOUNT_ID.val))
               => /\ store_call[p].result = stores[1].id
                  /\ actual_store_id_cache = stores[1].id

C15_Witness ==
    \E p \in Procs :
        /\ SeveralStores(p)
        /\ gw[p].outcome.body.items[1] = Store(<<"s", "3">>, <<"x">>)
        /\ gw[p].outcome.body.items[2] = Store(<<>>, <<"x">>)
        /\ store_call[p].result = <<"s", "3">>
        /\ actual_store_id_cache = <<"s", "3">>

\* C16: a get_actual_store_id call whose /stores call failed or returned
\* nothing or an empty list returns no id and leaves the store-identity
\* cache unset, and the call that follows one that returned no id makes a
\* /stores call of its own.
C16_NoStoresNoId ==
    \A p \in Procs :
        LET sc == store_call[p]
        IN /\ (sc.spc = "done" /\ sc.fetched
                 /\ (gw[p].outcome.kind # "ok" \/ ~Truthy(gw[p].outcome.body)))
              => (sc.result = <<>> /\ actual_store_id_cache = <<>>)
           /\ (sc.spc # "idle" /\ sc.prior.done /\ sc.prior.id = <<>>)
              => (sc.fetched /\ gw[p].endpoint = Ep("/stores", ""))

C16_Witness ==
    \E p \in Procs :
        /\ store_call[p].spc = "done" /\ store_call[p].fetched
        /\ store_call[p].prior.done /\ store_call[p].prior.id = <<>>
        /\ gw[p].first = HttpStatus(200, JList(<<>>))
        /\ store_call[p].result = <<>>

\* what holds in every state once an id has been resolved
StoreIdKept ==
    /\ (last_resolve.done /\ last_resolve.id # <<>>)
          => actual_store_id_cache = last_resolve.id
    /\ \A p \in Procs :
          (store_call[p].spc # "idle" /\ store_call[p].had # <<>>)
          => /\ store_call[p].spc = "done" /\ ~store_call[p].fetched
             /\ store_call[p].result = store_call[p].had
             /\ actual_store_id_cache = store_call[p].had
             /\ gw[p] = NoCall /\ http_log[p] = {}

\* C17: once the store-identity cache holds an id no step changes it, the
\* sweeps and rewrites of the product cache included, and a
\* get_actual_store_id call that finds it set returns it without a
\* gateway call.
C17_StoreIdPermanent ==
    /\ []StoreIdKept
    /\ [][actual_store_id_cache # <<>>
            => actual_store_id_cache' = actual_store_id_cache]_vars

C17_Witness ==
    \E p \in Procs :
        /\ store_call[p].spc = "done" /\ ~store_call[p].fetched
        /\ store_call[p].result = <<"s", "2">>
        /\ store_call[p].prior = Resolved(<<"s", "2">>)
        /\ \E id \in ProductIds : product_cache.named[id].present
        /\ product_cache.others = NoOthers

\* the span in days of the range of a get_sales_analytics invocation
Span(c) == c.args.to - c.args.from

\* C18: a get_sales_analytics invocation whose range has from_date after
\* to_date, or a span above MAX_RANGE_DAYS, ends at once with the rejection
\* text: no gateway call is made, and the rate limiter's state, the
\* store-identity cache and the product cache are left as they were.
C18_RangeRejectedBeforeNetwork ==
    [][\A p \in Procs :
           (invocations' # invocations
              /\ call'[p].tool = "get_sales_analytics" /\ call'[p].args.ok
              /\ (Span(call'[p]) < 0 \/ Span(call'[p]) > MAX_RANGE_DAYS))
           => /\ call'[p].tpc = "done"
              /\ call'[p].out.kind \in {"invalid_range", "range_too_large"}
              /\ call'[p].tx_calls = 0
              /\ gw'[p] = NoCall /\ http_log'[p] = {}
              /\ UNCHANGED <<last_api_call_time, last_http_at, stamped, stamp_toggle,
                             actual_store_id_cache, product_cache>>]_vars

C18_Witness ==
    \E p \in Procs :
        /\ call[p].tool = "get_sales_analytics" /\ call[p].tpc = "done"
        /\ Span(call[p]) > MAX_RANGE_DAYS
        /\ call[p].out.kind = "range_too_large"
        /\ stamped /\ actual_store_id_cache # <<>>

\* the smallest integer not below n / d
CeilDiv(n, d) == (n + d - 1) \div d

\* C19: a chunked fetch of a range of D days, CHUNK_DAYS < D <=
\* MAX_RANGE_DAYS, that has run to its end has made exactly the ceiling of
\* D / 14 /transactions gateway calls, the number its report states.
C19_ChunkCallCount ==
    \A p \in Procs :
        (call[p].tool = "get_sales_analytics" /\ call[p].tpc = "done"
           /\ call[p].args.ok /\ call[p].tx_calls > 0
           /\ Span(call[p]) > CHUNK_DAYS /\ Span(call[p]) <= MAX_RANGE_DAYS)
        => /\ call[p].tx_calls = CeilDiv(Span(call[p]), 14)
           /\ call[p].tx_calls = chunks_count(Span(call[p]))

\* the records are in the order of their ranges
Chronological(txs) ==
    \A i \in 1..Len(txs) : \A j \in 1..Len(txs) :
        i < j => txs[i].id[2] < txs[j].id[1]

\* the call in progress of a chunked fetch is the one for the chunk that
\* starts at the loop's date, and the records so far are those of earlier
\* chunks, in chunk order
ChunksInOrder ==
    \A p \in Procs :
        /\ call[p].tpc = "chunk"
           => /\ gw[p].endpoint.path = "/transactions"
              /\ gw[p].endpoint.from = call[p].date
              /\ gw[p].endpoint.to = Min(call[p].date + CHUNK_DAYS, call[p].args.to)
              /\ \A i \in 1..Len(call[p].txs) : call[p].txs[i].id[2] < call[p].date
        /\ call[p].tool = "get_sales_analytics" => Chronological(call[p].txs)

\* C20: in a chunked fetch a /transactions call is made only when the call
\* of the chunk before it has returned or failed, for the chunk that
\* starts the day after that chunk's end, and the records are concatenated
\* in chunk order.
C20_ChunksSerialInOrder ==
    /\ []ChunksInOrder
    /\ [][\A p \in Procs :
             (call[p].tpc = "chunk" /\ gw'[p] # gw[p] /\ gw'[p].attempts <= 1
                /\ gw'[p].pc \in {"rl_sleep", "http1"} /\ gw[p].pc # "rl_sleep")
             => /\ gw[p].pc = "ret"
                /\ call'[p].tpc = "chunk"
                /\ gw'[p].endpoint.from = gw[p].endpoint.to + 1
                /\ call'[p].tx_calls = call[p].tx_calls + 1]_vars

C20_Witness ==
    \E p \in Procs :
        /\ call[p].tool = "get_sales_analytics" /\ call[p].tpc = "done"
        /\ call[p].tx_calls = 2
        /\ call[p].txs = <<Tx(FirstDay, FirstDay + 14), Tx(FirstDay + 15, FirstDay + 29)>>

\* a get_sales_analytics invocation whose range is fetched in chunks
Chunked(c) ==
    /\ c.tool = "get_sales_analytics" /\ c.args.ok
    /\ Span(c) > CHUNK_DAYS /\ Span(c) <= MAX_RANGE_DAYS

\* the number of chunks the loop makes of a span: a chunk is the 15 days
\* from its start to its start + 14
NumChunks(span) == span \div (CHUNK_DAYS + 1) + 1

\* every chunk is asked for, none aborts the fetch, and a failed one adds
\* no record
FailedChunksSkipped ==
    \A p \in Procs :
        Chunked(call[p]) =>
            /\ call[p].tpc = "chunk"
               => Len(call[p].txs) + call[p].skipped <= call[p].tx_calls - 1
            /\ (call[p].tpc = "done" /\ call[p].tx_calls > 0)
               => /\ call[p].tx_calls = NumChunks(Span(call[p]))
                  /\ call[p].out.kind \in {"report", "no_transactions"}
                  /\ Len(call[p].txs) + call[p].skipped <= call[p].tx_calls

\* C21: when the call of a chunk fails the records gathered so far are
\* kept as they are and the loop goes on to the chunk after it; at the end
\* every chunk has been asked for and the result is, in chunk order, what
\* the calls that succeeded returned.
C21_FailedChunkSkipped ==
    /\ []FailedChunksSkipped
    /\ [][\A p \in Procs :
             (call[p].tpc = "chunk" /\ gw[p].pc = "ret" /\ call'[p] # call[p])
             => LET o == gw[p].outcome
                    more == gw[p].endpoint.to < call[p].args.to
                IN /\ o.kind # "ok"
                      => /\ call'[p].txs = call[p].txs
                         /\ call'[p].skipped = call[p].skipped + 1
                   /\ o.kind = "ok"
                      => call'[p].txs =
                            call[p].txs \o (IF o.body.type = "list" THEN o.body.items ELSE <<>>)
                   /\ more => /\ call'[p].tpc = "chunk"
                              /\ call'[p].tx_calls = call[p].tx_calls + 1
                              /\ gw'[p].endpoint.from = gw[p].endpoint.to + 1
                   /\ ~more => /\ call'[p].tpc = "done"
                               /\ call'[p].out = SalesReport(call'[p].txs)]_vars

C21_Witness ==
    \E p \in Procs :
        /\ Chunked(call[p]) /\ call[p].tpc = "done"
        /\ call[p].tx_calls = 2 /\ call[p].skipped = 1
        /\ call[p].txs = <<Tx(FirstDay + 15, FirstDay + 29)>>
        /\ call[p].out.kind = "report"

\* the days of chunk k of invocation c
ChunkDays(c, k) ==
    LET first == c.args.from + (k - 1) * (CHUNK_DAYS + 1)
        last == IF first + CHUNK_DAYS < c.args.to THEN first + CHUNK_DAYS ELSE c.args.to
    IN first..last

\* C22: the chunk the loop asks for in its k-th call is a closed interval
\* of at most 14 days (to - from <= 14) inside [from, to]; the first starts
\* at from, each other the day after the one before it ends, the last
\* ends at to, and every day of [from, to] is in exactly one chunk.
C22_ChunksPartitionRange ==
    \A p \in Procs :
        (Chunked(call[p]) /\ call[p].tx_calls > 0) =>
            LET c == call[p]
                e == gw[p].endpoint
                k == c.tx_calls
            IN /\ e.path = "/transactions"
               /\ e.from = c.args.from + (k - 1) * (CHUNK_DAYS + 1)
               /\ e.from <= e.to /\ e.to - e.from <= 14
               /\ e.to <= c.args.to
               /\ e.to = e.from + CHUNK_DAYS \/ e.to = c.args.to
               /\ e.from..e.to = ChunkDays(c, k)
               /\ c.tpc = "done"
                  => /\ e.to = c.args.to
                     /\ \A d \in c.args.from..c.args.to :
                           Cardinality({j \in 1..k : d \in ChunkDays(c, j)}) = 1

C22_Witness ==
    \E p \in Procs :
        /\ Chunked(call[p]) /\ call[p].tpc = "chunk" /\ call[p].tx_calls = 2
        /\ gw[p].pc = "http1"
        /\ gw[p].endpoint.from = FirstDay + 15
        /\ gw[p].endpoint.to = FirstDay + 29

\* C23: a validated range of 0 to CHUNK_DAYS days, both included, is
\* fetched with one /transactions gateway call for the whole range; a null
\* result counts as no records, and when the call fails the invocation
\* ends with the error.
C23_SingleCallForShortRange ==
    \A p \in Procs :
        LET c == call[p]
            o == gw[p].outcome
        IN (c.tool = "get_sales_analytics" /\ c.args.ok
              /\ Span(c) >= 0 /\ Span(c) <= CHUNK_DAYS)
           => /\ c.tpc # "chunk" /\ c.tx_calls <= 1
              /\ c.tpc = "tx"
                 => /\ c.tx_calls = 1
                    /\ gw[p].endpoint \in
                          {EpRange("/transactions", c.args.from, c.args.to, st.id) :
                             st \in StoreSet}
                    /\ gw[p].endpoint.store # <<>>
              /\ (c.tpc = "done" /\ c.tx_calls = 1)
                 => /\ o.kind # "ok" => c.out = ErrorOut(o)
                    /\ o.kind = "ok" /\ ~Truthy(o.body)
                          => c.txs = <<>> /\ c.out.kind = "no_transactions"
                    /\ o.kind = "ok" /\ Truthy(o.body)
                          => c.txs = o.body.items /\ c.out.kind = "report"

C23_Witness ==
    \E p \in Procs :
        /\ call[p].tool = "get_sales_analytics" /\ call[p].tpc = "done"
        /\ Span(call[p]) = CHUNK_DAYS /\ call[p].tx_calls = 1
        /\ gw[p].outcome = Ok(JNull)
        /\ call[p].out.kind = "no_transactions"

\* C24: with several stores, get_actual_store_id returns the id of the
\* first store of the list that matches the account id by its id, by its
\* name (case-insensitive) or by containing it in its name
\* (case-insensitive), whatever the stores after it are, and the
\* store-identity cache holds that id.
C24_FirstMatchInListOrder ==
    \A p \in Procs :
        SeveralStores(p) =>
            LET stores == gw[p].outcome.body.items
                account == STOREHUB_ACCOUNT_ID.val
            IN \A i \in 1..Len(stores) :
                  (/\ \/ account = stores[i].id
                      \/ Lower(account) = Lower(stores[i].name)
                      \/ Contains(Lower(account), Lower(stores[i].name))
                   /\ \A j \in 1..(i - 1) :
                         /\ account # stores[j].id
                         /\ Lower(account) # Lower(stores[j].name)
                         /\ ~Contains(Lower(account), Lower(stores[j].name)))
                  => /\ store_call[p].result = stores[i].id
                     /\ actual_store_id_cache = stores[i].id

C24_Witness ==
    \E p \in Procs :
        /\ SeveralStores(p)
        /\ gw[p].outcome.body.items[1] = Store(<<"A", "b">>, <<"y">>)
        /\ gw[p].outcome.body.items[2] = Store(<<"s", "1">>, <<"a", "B">>)
        /\ store_call[p].result = <<"A", "b">>
        /\ actual_store_id_cache = <<"A", "b">>

\* the fetch of a get_product_name_cached call failed: the gateway call
\* raised, or gave something that is not an object
FetchFailed(o) == o.kind # "ok" \/ o.body.type # "object"

\* the step adds no entry to the product cache and overwrites none
NoEntryWritten ==
    /\ \A i \in ProductIds :
          product_cache'.named[i] \in {product_cache.named[i], NoEntry}
    /\ product_cache'.others \in {product_cache.others, NoOthers}

\* C25: a get_product_name_cached call whose fetch fails adds no entry to
\* the product cache and overwrites none: its first step writes nothing,
\* the steps of its gateway call and its return leave the cache as it is,
\* and it returns the placeholder; the next call for the same id goes to
\* the gateway again.
C25_FailedFetchNotCached ==
    /\ [][\A p \in Procs :
            /\ (name_call[p].lpc # "api" /\ name_call'[p].lpc = "api")
                  => NoEntryWritten
            /\ (name_call[p].lpc = "api"
                  /\ (name_call'[p].lpc = "api" \/ FetchFailed(gw[p].outcome)))
                  => /\ product_cache' = product_cache
                     /\ name_call'[p].lpc = "done"
                           => name_call'[p].result = Placeholder(name_call[p].id)]_vars
    /\ [](\A p \in Procs :
            (name_call[p].lpc # "idle" /\ name_call[p].before.done
               /\ name_call[p].before.failed)
            => /\ name_call[p].fetched
               /\ gw[p].endpoint = Ep("/products/{id}", name_call[p].id))

C25_Witness ==
    \E p \in Procs :
        /\ name_call[p].lpc = "done" /\ name_call[p].fetched
        /\ name_call[p].before.done /\ name_call[p].before.failed
        /\ gw[p].outcome = Raise("ApiError", 500)
        /\ name_call[p].result = Placeholder(name_call[p].id)
        /\ product_cache.named[name_call[p].id] = NoEntry

\* C26: the retry after a 409 is sent without an acquisition of the rate
\* limiter: the step that sends it leaves last_api_call_time as it is, no
\* step of a gateway call after its first attempt was sent changes it, and
\* so when the call has retried the timestamp is older than the retry by
\* the whole cooldown at least.
C26_RetryBypassesLimiter ==
    /\ [][\A p \in SerialProcs :
            gw[p].pc \in {"http1", "cooldown", "http2"}
            => /\ last_api_call_time' = last_api_call_time
               /\ stamp_toggle' = stamp_toggle]_vars
    /\ [](\A p \in SerialProcs :
            gw[p].attempts = 2
            => /\ last_api_call_time + gw[p].waited <= last_http_at
               /\ gw[p].waited >= RETRY_WAIT)

C26_Witness ==
    \E p \in SerialProcs :
        /\ gw[p].pc = "ret" /\ gw[p].attempts = 2
        /\ gw[p].outcome.kind = "ok"
        /\ last_api_call_time + RETRY_WAIT <= last_http_at
        /\ last_http_at <= now

\* the step is the first one of a get_product_name_cached call of p
LookupEntered(p) == invocations' # invocations /\ name_call'[p].id # ""

\* an entry cached at cached_time is older than the TTL now
OlderThanTTL(cached_time) == now - cached_time > CACHE_DURATION

\* C27: a get_product_name_cached call that finds more than 100 entries in
\* the product cache sweeps it before its lookup, and one that finds fewer
\* does not: the sweep deletes every entry older than 300 s and no other,
\* so that none older remains and an entry served was not one to delete;
\* and no step of any call, whatever the size of the cache, removes or
\* changes an entry whose age is below the TTL.
C27_SweepRemovesExpiredOnly ==
    [][\A p \in SerialProcs :
         /\ LookupEntered(p) =>
               LET large == CacheLen(product_cache) > SWEEP_THRESHOLD
                   id == name_call'[p].id
               IN /\ name_call'[p].swept = large
                  /\ \A i \in ProductIds :
                        product_cache'.named[i] =
                           (IF large /\ product_cache.named[i].present
                                     /\ OlderThanTTL(product_cache.named[i].time)
                            THEN NoEntry ELSE product_cache.named[i])
                  /\ product_cache'.others =
                        (IF large /\ product_cache.others.count > 0
                                  /\ OlderThanTTL(product_cache.others.time)
                         THEN NoOthers ELSE product_cache.others)
                  /\ large =>
                        /\ \A i \in ProductIds :
                              product_cache'.named[i].present
                              => now - product_cache'.named[i].time <= CACHE_DURATION
                        /\ product_cache'.others.count > 0
                              => now - product_cache'.others.time <= CACHE_DURATION
                  /\ name_call'[p].lpc = "done" =>
                        /\ product_cache'.named[id].present
                        /\ name_call'[p].result = product_cache'.named[id].name
         /\ \A i \in ProductIds :
               (product_cache.named[i].present
                  /\ now - product_cache.named[i].time < CACHE_DURATION)
               => product_cache'.named[i] = product_cache.named[i]
         /\ (product_cache.others.count > 0
               /\ now - product_cache.others.time < CACHE_DURATION)
               => product_cache'.others = product_cache.others]_vars

\* the sweep of a call has deleted the entries of the other products, which
\* were older than the TTL, and has kept an entry whose age was the TTL
C27_Witness ==
    \E p \in SerialProcs : \E i \in ProductIds :
        /\ name_call[p].lpc = "api" /\ name_call[p].swept
        /\ name_call[p].id # i
        /\ product_cache.others = NoOthers
        /\ product_cache.named[i].present
        /\ name_call[p].current_time - product_cache.named[i].time = CACHE_DURATION

\* the step sends an HTTP request of p's gateway call, a first attempt or
\* the retry after a 409
SendsRequest(p) == gw'[p].pc \in {"http1", "http2"} /\ gw'[p].pc # gw[p].pc

\* C28 as stated: with one gateway call at a time, every HTTP request, a
\* retry after a 409 as well as a first attempt, is sent at least
\* RATE_LIMIT_DELAY after the request before it.
C28_AllAttemptsSpaced ==
    [][\A p \in SerialProcs :
         (SendsRequest(p) /\ last_http_at > 0)
         => now - last_http_at >= RATE_LIMIT_DELAY]_vars

\* the requests to /transactions among those of p's invocation
TransactionRequests(p) == {q \in http_log[p] : q.endpoint.path = "/transactions"}

\* C29: in get_sales_analytics every /transactions request carries the
\* store id that get_actual_store_id resolved before it, and when the
\* /stores call of get_actual_store_id fails, or gives nothing, or gives an
\* empty list, or a store without an id, the invocation ends at that step
\* with the store error text and without any /transactions request.
C29_StoreResolvedBeforeTransactions ==
    /\ [](\A p \in SerialProcs :
            call[p].tool = "get_sales_analytics"
            => /\ \A q \in TransactionRequests(p) :
                     /\ q.endpoint.store # <<>>
                     /\ q.endpoint.store = actual_store_id_cache
               /\ call[p].out.kind = "no_store_id"
                     => /\ call[p].tpc = "done" /\ call[p].tx_calls = 0
                        /\ TransactionRequests(p) = {}
                        /\ gw[p].endpoint = Ep("/stores", ""))
    /\ [][\A p \in SerialProcs :
            (/\ call[p].tpc = "stores" /\ call'[p].tpc # "stores"
             /\ \/ gw[p].outcome.kind # "ok"
                \/ ~Truthy(gw[p].outcome.body)
                \/ actual_store_id_cache' = <<>>)
            => /\ call'[p].tpc = "done"
               /\ call'[p].out = Out("no_store_id", "", 0)
               /\ gw'[p] = gw[p] /\ http_log'[p] = http_log[p]]_vars

C29_Witness ==
    \E p \in SerialProcs :
        /\ call[p].tool = "get_sales_analytics" /\ call[p].tpc = "done"
        /\ call[p].out.kind = "no_store_id"
        /\ gw[p].first = HttpStatus(200, JList(<<>>))
        /\ http_log[p] = {[method |-> "GET", endpoint |-> Ep("/stores", "")]}

\* C30: in the chunk loop of a validated range every return of a chunk's
\* call, whatever its outcome, either ends the fetch or starts the call of
\* a chunk that begins later and within the range; the calls made never
\* exceed the number of chunks of the range; and when every call returns
\* or fails, a fetch that has started ends.
C30_ChunkLoopTerminates ==
    /\ [][\A p \in SerialProcs :
            (call[p].tpc = "chunk" /\ call'[p] # call[p])
            => /\ gw[p].pc = "ret"
               /\ call'[p].tpc \in {"chunk", "done"}
               /\ call'[p].tpc = "chunk"
                     => /\ call'[p].date > call[p].date
                        /\ call'[p].date <= call[p].args.to
                        /\ call'[p].tx_calls = call[p].tx_calls + 1
                        /\ gw'[p].endpoint.from = call'[p].date]_vars
    /\ [](\A p \in SerialProcs :
            call[p].tool = "get_sales_analytics"
            => /\ call[p].tx_calls <= NumChunks(Span(call[p]))
               /\ call[p].tx_calls <= NumChunks(MAX_RANGE_DAYS))
    /\ \A p \in SerialProcs :
          (call[p].tpc \in {"stores", "chunk"}) ~> (call[p].tpc = "done")

C30_Witness ==
    \E p \in SerialProcs :
        /\ Chunked(call[p]) /\ call[p].tpc = "done"
        /\ Span(call[p]) = 45 /\ call[p].tx_calls = 4
        /\ call[p].skipped = 2 /\ Len(call[p].txs) = 2

=============================================================================
